---- MODULE Spec2Model ----
(***************************************************************************)
(* Model of the ISCC certificate PDF scraper ("ISCC Scraping/scraper.py"): *)
(* the ingestion run of main() / ISCCPDFScraper.process_certificates, the  *)
(* identity set processed_pdfs and the progress file processed_pdfs.json.  *)
(* A behaviour is a sequence of runs of main() sharing the progress file.  *)
(***************************************************************************)
EXTENDS Integers, Sequences, FiniteSets, TLC

(* ------------------------------ bounds -------------------------------- *)
\* number of distinct document URLs the listing site can serve
NumUrls == 2
\* largest number of body rows of the listing table
MaxRows == 2
\* largest number of .pdf hyperlinks on one listing page
MaxLinks == 2
\* largest cap value passed as max_pdfs
MaxCap == 1
\* largest number of calls of a function under test on one input
MaxCalls == 2
\* largest number of fragments a link text is put together from
MaxWords == 3

(* ------------------------- program constants -------------------------- *)
\* "if len(cells) < 5" in extract_certificate_data
MinCells == 5
\* max_pdfs: Optional[int] = None
NoneCap == -1

URLs == 1..NumUrls

\* the leading bytes download_pdf requires: b'%PDF'
PDF_MAGIC == <<"%", "P", "D", "F">>
\* pdf_content is None
NoneBytes == <<"None">>

\* response bodies the document host can return with a success status
Bodies ==
  { <<"%", "P", "D", "F", "-">>,
    <<"%", "P", "D">>,
    <<"x", "%", "P", "D", "F">>,
    <<>> }

StartsWithLoose(content, prefix) ==
  \E i \in 0..Len(content) :
     /\ i + Len(prefix) <= Len(content)
     /\ SubSeq(content, i + 1, i + Len(prefix)) = prefix

\* bytes.startswith
StartsWith(content, prefix) ==
  /\ Len(content) >= Len(prefix)
  /\ SubSeq(content, 1, Len(prefix)) = prefix

\* hashlib.md5(pdf_url.encode()).hexdigest(): distinct URLs, distinct digests
md5(url) == <<"md5", url>>

Hashes == { md5(u) : u \in URLs }

(* --------------------------- progress file ---------------------------- *)
\* all orders in which list(set) can enumerate a set
RECURSIVE Orders(_)
Orders(S) ==
  IF S = {} THEN { <<>> }
  ELSE UNION { { <<x>> \o t : t \in Orders(S \ {x}) } : x \in S }

\* json.dump(list(processed_pdfs), f): the text as a sequence of tokens
LBracket == <<"[">>
RBracket == <<"]">>
JsonTexts(S) == { <<LBracket>> \o o \o <<RBracket>> : o \in Orders(S) }

Prefixes(t) == { SubSeq(t, 1, n) : n \in 0..Len(t) }

\* json.load succeeds only on a complete array
JsonValid(text) ==
  /\ Len(text) >= 2
  /\ text[1] = LBracket
  /\ text[Len(text)] = RBracket
  /\ \A i \in 2..(Len(text) - 1) : text[i] \in Hashes

\* set(json.load(f))
JsonSet(text) == { text[i] : i \in 2..(Len(text) - 1) }

MissingFile == [exists |-> FALSE, text |-> <<>>]

(* ---------------------------- listing page ---------------------------- *)
\* a table row: its number of cells and the .pdf hyperlinks found in its cells
BodyRows == [ncells : {MinCells - 2, MinCells + 1}, links : UNION { [1..n -> URLs] : n \in 0..MaxLinks }]

HeaderRow == [ncells |-> MinCells, links |-> <<>>]

RECURSIVE SumLinks(_)
SumLinks(rows) ==
  IF rows = <<>> THEN 0 ELSE Len(Head(rows).links) + SumLinks(Tail(rows))

\* pages the listing site can serve: no table at all, or a header row and body rows
NoPage == [table |-> FALSE, rows |-> <<>>]

Pages ==
  { [table |-> FALSE, rows |-> <<>>] } \cup
  { [table |-> TRUE, rows |-> <<HeaderRow>> \o b] :
      b \in { r \in UNION { [1..n -> BodyRows] : n \in 0..MaxRows } : SumLinks(r) <= MaxLinks } }

RowKeptAnyCells(row) == row.links # <<>>

RowKeptAnyLinks(row) == row.ncells >= MinCells

\* "if len(cells) < 5: continue" and "if cert_data['pdf_links']"
RowKept(row) == row.ncells >= MinCells /\ row.links # <<>>

RECURSIVE ExtractRowsStopAtShort(_)
ExtractRowsStopAtShort(rows) ==
  IF rows = <<>> \/ Head(rows).ncells < MinCells THEN <<>>
  ELSE IF RowKept(Head(rows))
       THEN <<[pdf_links |-> Head(rows).links]>> \o ExtractRowsStopAtShort(Tail(rows))
       ELSE ExtractRowsStopAtShort(Tail(rows))

RECURSIVE ExtractRows(_)
ExtractRows(rows) ==
  IF rows = <<>> THEN <<>>
  ELSE IF RowKept(Head(rows))
       THEN <<[pdf_links |-> Head(rows).links]>> \o ExtractRows(Tail(rows))
       ELSE ExtractRows(Tail(rows))

\* extract_certificate_data: no table, no certificates; the first row is skipped
extract_certificate_data(page) ==
  IF ~page.table \/ page.rows = <<>> THEN <<>> ELSE ExtractRows(Tail(page.rows))

(* ------------------------------- state -------------------------------- *)
VARIABLES
  pc,             \* position of the process in main() / process_certificates()
  file,           \* processed_pdfs.json: [exists, text]
  processed_pdfs, \* self.processed_pdfs
  stats,          \* the stats dictionary of process_certificates
  max_pdfs,       \* the cap argument of process_certificates
  certificates,   \* the extracted certificates
  ci, li,         \* position of the two nested for loops
  pdf_count,      \* pdf_count of process_certificates
  response,       \* response of download_pdf
  pdf_content,    \* pdf_content of process_certificates
  lastFetch,      \* how the last download_pdf call of this frame ended
  endKind,        \* how main() is leaving: none, normal, interrupted, exception, killed, load_error
  interruptedAt,  \* pc at which KeyboardInterrupt was raised, or "none"
  aborted,        \* get_page_content returned no content in this run
  extracted,      \* extract_certificate_data was called in this run
  loaded,         \* processed_pdfs as load_progress left it in this run
  existedAtStart, \* the progress file existed when this run started
  fetched,        \* URLs passed to download_pdf in this run
  uploadCalls,    \* <<url, body>> passed to upload_to_s3 in this run
  stored,         \* URLs whose put_object succeeded (upload_to_s3 returned True) in this run
  prevStored,     \* stored of the previous run, when that run ended normally; else {}
  sinceFetch,     \* time.sleep(1) since the last download_pdf call of this frame: none, no_delay, delayed
  capStop,        \* process_certificates returned at "Reached maximum PDF limit" in this run
  saveCalled,     \* save_progress was called in this run
  html_content,   \* the page under test handed to extract_certificate_data
  link_text,      \* the link text under test handed to classify_pdf_type
  extractOut,     \* the lists successive extract_certificate_data calls returned
  classifyOut,    \* the values successive classify_pdf_type calls returned
  tally,          \* links of this frame skipped as already processed, and uploads that failed
  call_args,      \* the arguments under test handed to a helper method
  call_out        \* the values successive calls of that helper returned

vars ==
  << pc, file, processed_pdfs, stats, max_pdfs, certificates, ci, li, pdf_count,
     response, pdf_content, lastFetch, endKind, interruptedAt, aborted, extracted, loaded,
     existedAtStart, fetched, uploadCalls, stored, prevStored, sinceFetch, capStop,
     saveCalled, html_content, link_text, extractOut, classifyOut, tally, call_args,
     call_out >>

runVars ==
  << processed_pdfs, stats, tally, max_pdfs, certificates, ci, li, pdf_count, response,
     pdf_content, lastFetch, sinceFetch, aborted, capStop, extracted, loaded, fetched,
     uploadCalls, stored >>

history == << existedAtStart, prevStored >>

\* what the tests of the two pure functions work on
unitVars == << html_content, link_text, extractOut, classifyOut, call_args, call_out >>

\* nothing skipped, no upload failed
ZeroTally == [skipped |-> 0, failed_uploads |-> 0]

\* stats = {...: 0} at the top of process_certificates
ZeroStats ==
  [certificates_found |-> 0, pdfs_found |-> 0, pdfs_downloaded |-> 0,
   pdfs_uploaded |-> 0, errors |-> 0]

NoResponse == [kind |-> "none", content |-> <<>>]

\* the values main() and its callers pass as max_pdfs
CapValues == {NoneCap} \cup (0..MaxCap)

IterationPcs == {"loop", "dl_get", "dl_check", "put", "upload_true", "upload_false"}
TryPcs == {"get_page"} \cup IterationPcs \cup {"save_open", "save_dump"}

Init ==
  /\ pc = "idle"
  /\ file = MissingFile
  /\ processed_pdfs = {}
  /\ stats = ZeroStats
  /\ max_pdfs = NoneCap
  /\ certificates = <<>>
  /\ ci = 1
  /\ li = 1
  /\ pdf_count = 0
  /\ response = NoResponse
  /\ pdf_content = NoneBytes
  /\ lastFetch = "none"
  /\ endKind = "none"
  /\ interruptedAt = "none"
  /\ aborted = FALSE
  /\ extracted = FALSE
  /\ loaded = {}
  /\ existedAtStart = FALSE
  /\ fetched = {}
  /\ uploadCalls = {}
  /\ stored = {}
  /\ prevStored = {}
  /\ sinceFetch = "none"
  /\ capStop = FALSE
  /\ saveCalled = FALSE
  /\ html_content = NoPage
  /\ link_text = <<>>
  /\ extractOut = <<>>
  /\ classifyOut = <<>>
  /\ tally = ZeroTally
  /\ call_args = <<>>
  /\ call_out = <<>>

(* ------------------------------ main() -------------------------------- *)
\* main(): a new process; ISCCPDFScraper.__init__ sets processed_pdfs = set()
StartRun ==
  /\ pc \in {"idle", "exit"}
  /\ pc' = "load"
  /\ processed_pdfs' = {}
  /\ stats' = ZeroStats
  /\ tally' = ZeroTally
  /\ \E m \in CapValues : max_pdfs' = m
  /\ certificates' = <<>>
  /\ ci' = 1
  /\ li' = 1
  /\ pdf_count' = 0
  /\ response' = NoResponse
  /\ pdf_content' = NoneBytes
  /\ lastFetch' = "none"
  /\ endKind' = "none"
  /\ interruptedAt' = "none"
  /\ aborted' = FALSE
  /\ extracted' = FALSE
  /\ loaded' = {}
  /\ existedAtStart' = file.exists
  /\ fetched' = {}
  /\ uploadCalls' = {}
  /\ stored' = {}
  /\ prevStored' = IF pc = "exit" /\ endKind = "normal" THEN stored ELSE {}
  /\ sinceFetch' = "none"
  /\ capStop' = FALSE
  /\ saveCalled' = FALSE
  /\ UNCHANGED << file, unitVars >>

LoadedSetEmptyIfMissing(f, old) == IF f.exists THEN JsonSet(f.text) ELSE {}

\* load_progress: the set read from the file; FileNotFoundError leaves the set as it is
LoadedSet(f, old) == IF f.exists THEN JsonSet(f.text) ELSE old

\* scraper.load_progress(), outside the try block of main()
LoadProgress ==
  /\ pc = "load"
  /\ IF file.exists /\ ~JsonValid(file.text)
     THEN \* json.JSONDecodeError is not caught: the process ends with a traceback
          /\ pc' = "exit"
          /\ endKind' = "load_error"
          /\ UNCHANGED << processed_pdfs, loaded >>
     ELSE /\ pc' = "get_page"
          /\ processed_pdfs' = LoadedSet(file, processed_pdfs)
          /\ loaded' = LoadedSet(file, processed_pdfs)
          /\ UNCHANGED endKind
  /\ UNCHANGED << file, stats, tally, max_pdfs, certificates, ci, li, pdf_count, response,
                  pdf_content, lastFetch, sinceFetch, interruptedAt, saveCalled, aborted, capStop, extracted, fetched, uploadCalls,
                  stored, history, unitVars >>

(* ----------------------- process_certificates ------------------------- *)
\* the frame of process_certificates is gone: its locals no longer exist
\* (stats lives on only where it is the value returned to main())
FrameDropped ==
  /\ max_pdfs' = NoneCap
  /\ certificates' = <<>>
  /\ ci' = 1
  /\ li' = 1
  /\ pdf_count' = 0
  /\ response' = NoResponse
  /\ pdf_content' = NoneBytes
  /\ lastFetch' = "none"
  /\ sinceFetch' = "none"

\* "return stats" followed by the logging and save_progress() of main()
ReturnStats ==
  /\ pc' = "save_open"
  /\ endKind' = "normal"
  /\ FrameDropped
  /\ UNCHANGED << stats, tally >>

\* an exception that is not KeyboardInterrupt leaves process_certificates:
\* "except Exception" of main() logs it and calls save_progress()
RaiseToMain ==
  /\ pc' = "save_open"
  /\ endKind' = "exception"
  /\ FrameDropped
  /\ stats' = ZeroStats
  /\ tally' = ZeroTally

GetPageNoneCountsError ==
  /\ pc = "get_page"
  /\ aborted' = TRUE
  /\ pc' = "save_open"
  /\ endKind' = "normal"
  /\ FrameDropped
  /\ stats' = [stats EXCEPT !.errors = @ + 1]
  /\ tally' = tally
  /\ UNCHANGED << file, processed_pdfs, interruptedAt, saveCalled, capStop, extracted, loaded, fetched, uploadCalls,
                  stored, history, unitVars >>

\* get_page_content returned None or '' : "if not html_content: return stats"
GetPageNone ==
  /\ pc = "get_page"
  /\ aborted' = TRUE
  /\ ReturnStats
  /\ UNCHANGED << file, processed_pdfs, interruptedAt, saveCalled, capStop, extracted, loaded, fetched, uploadCalls, stored, history, unitVars >>

\* get_page_content raised: response.json() of the proxy is not an object
GetPageRaises ==
  /\ pc = "get_page"
  /\ RaiseToMain
  /\ UNCHANGED << file, processed_pdfs, interruptedAt, saveCalled, aborted, capStop, extracted, loaded, fetched, uploadCalls, stored, history, unitVars >>

\* get_page_content returned a page; extract_certificate_data; pdf_count = 0
GetPageAndExtract ==
  /\ pc = "get_page"
  /\ \E page \in Pages :
       /\ certificates' = extract_certificate_data(page)
       /\ stats' = [stats EXCEPT !.certificates_found = Len(extract_certificate_data(page))]
       /\ tally' = tally
  /\ extracted' = TRUE
  /\ pdf_count' = 0
  /\ ci' = 1
  /\ li' = 1
  /\ pc' = "loop"
  /\ UNCHANGED << file, processed_pdfs, max_pdfs, response, pdf_content, lastFetch, sinceFetch, endKind,
                  interruptedAt, saveCalled, aborted, capStop, loaded, fetched, uploadCalls, stored, history, unitVars >>

\* both for loops are exhausted
Exhausted == ci > Len(certificates)

\* pdf_info['url'] of the current iteration
CurUrl == certificates[ci].pdf_links[li]

CapHitLate(m, n) == m # NoneCap /\ m # 0 /\ n > m

\* "if max_pdfs and pdf_count >= max_pdfs"
CapHit(m, n) == m # NoneCap /\ m # 0 /\ n >= m

\* the next (cert_data, pdf_info) pair
NextLink ==
  IF li < Len(certificates[ci].pdf_links)
  THEN /\ ci' = ci
       /\ li' = li + 1
  ELSE /\ ci' = ci + 1
       /\ li' = 1

AlreadyProcessedNever(h, S) == FALSE

AlreadyProcessedAtStart(h, S) == h \in loaded

\* "if url_hash in self.processed_pdfs"
AlreadyProcessed(h, S) == h \in S

\* the loops end: "return stats" at the bottom
LoopExhausted ==
  /\ pc = "loop"
  /\ Exhausted
  /\ ReturnStats
  /\ UNCHANGED << file, processed_pdfs, interruptedAt, saveCalled, aborted, capStop, extracted, loaded, fetched, uploadCalls, stored, history, unitVars >>

\* number of (cert_data, pdf_info) pairs the loops went through before pair (c, l)
RECURSIVE LinksBefore(_, _, _)
LinksBefore(certs, c, l) ==
  IF c <= 1 THEN l - 1
  ELSE Len(certs[c - 1].pdf_links) + LinksBefore(certs, c - 1, l)

CapReachedCountsLink ==
  /\ pc = "loop"
  /\ ~Exhausted
  /\ CapHit(max_pdfs, pdf_count)
  /\ pc' = "save_open"
  /\ endKind' = "normal"
  /\ FrameDropped
  /\ stats' = [stats EXCEPT !.pdfs_found = @ + 1]
  /\ tally' = tally
  /\ capStop' = TRUE
  /\ UNCHANGED << file, processed_pdfs, interruptedAt, saveCalled, aborted, extracted, loaded, fetched, uploadCalls, stored, history, unitVars >>

\* "Reached maximum PDF limit": return stats
CapReached ==
  /\ pc = "loop"
  /\ ~Exhausted
  /\ CapHit(max_pdfs, pdf_count)
  /\ ReturnStats
  /\ capStop' = TRUE
  /\ UNCHANGED << file, processed_pdfs, interruptedAt, saveCalled, aborted, extracted, loaded, fetched, uploadCalls, stored, history, unitVars >>

SkipProcessedAsError ==
  /\ pc = "loop"
  /\ ~Exhausted
  /\ ~CapHit(max_pdfs, pdf_count)
  /\ AlreadyProcessed(md5(CurUrl), processed_pdfs)
  /\ stats' = [stats EXCEPT !.pdfs_found = @ + 1, !.errors = @ + 1]
  /\ tally' = [tally EXCEPT !.skipped = @ + 1]
  /\ NextLink
  /\ UNCHANGED << pc, file, processed_pdfs, max_pdfs, certificates, pdf_count, response,
                  pdf_content, lastFetch, sinceFetch, endKind, interruptedAt, saveCalled, aborted, capStop, extracted, loaded,
                  fetched, uploadCalls, stored, history, unitVars >>

\* pdfs_found += 1; "Skipping already processed PDF": continue
SkipProcessed ==
  /\ pc = "loop"
  /\ ~Exhausted
  /\ ~CapHit(max_pdfs, pdf_count)
  /\ AlreadyProcessed(md5(CurUrl), processed_pdfs)
  /\ stats' = [stats EXCEPT !.pdfs_found = @ + 1]
  /\ tally' = [tally EXCEPT !.skipped = @ + 1]
  /\ NextLink
  /\ UNCHANGED << pc, file, processed_pdfs, max_pdfs, certificates, pdf_count, response,
                  pdf_content, lastFetch, sinceFetch, endKind, interruptedAt, saveCalled, aborted, capStop, extracted, loaded,
                  fetched, uploadCalls, stored, history, unitVars >>

\* pdfs_found += 1; the link is new: go on to download_pdf
BeginLink ==
  /\ pc = "loop"
  /\ ~Exhausted
  /\ ~CapHit(max_pdfs, pdf_count)
  /\ ~AlreadyProcessed(md5(CurUrl), processed_pdfs)
  /\ stats' = [stats EXCEPT !.pdfs_found = @ + 1]
  /\ tally' = tally
  /\ pc' = "dl_get"
  /\ UNCHANGED << file, processed_pdfs, max_pdfs, certificates, ci, li, pdf_count, response,
                  pdf_content, lastFetch, sinceFetch, endKind, interruptedAt, saveCalled, aborted, capStop, extracted, loaded,
                  fetched, uploadCalls, stored, history, unitVars >>

(* ---------------------------- download_pdf ---------------------------- *)
\* what self.session.get can produce: an exception of requests, an error status, a body
Responses ==
  { [kind |-> "conn_error", content |-> <<>>], [kind |-> "http_error", content |-> <<>>] }
  \cup { [kind |-> "ok", content |-> b] : b \in Bodies }

IsPdfLoose(content) == StartsWithLoose(content, PDF_MAGIC)

\* response.content.startswith(b'%PDF')
IsPdf(content) == StartsWith(content, PDF_MAGIC)

\* the value download_pdf returns: RequestException and a non-PDF body give None
DownloadResult(r) ==
  IF r.kind = "ok" /\ IsPdf(r.content) THEN r.content ELSE NoneBytes

\* which exit of download_pdf a response takes
FetchOutcome(r) ==
  IF r.kind # "ok" THEN r.kind ELSE IF IsPdf(r.content) THEN "pdf" ELSE "not_pdf"

\* "not pdf_content": None or empty bytes
Falsy(b) == b = NoneBytes \/ b = <<>>

\* response = self.session.get(pdf_url, timeout=30)
DlGet ==
  /\ pc = "dl_get"
  /\ fetched' = fetched \cup {CurUrl}
  /\ \E r \in Responses : response' = r
  /\ pc' = "dl_check"
  /\ sinceFetch' = "no_delay"
  /\ UNCHANGED << file, processed_pdfs, stats, tally, max_pdfs, certificates, ci, li, pdf_count,
                  pdf_content, lastFetch, endKind, interruptedAt, saveCalled, aborted, capStop, extracted, loaded,
                  uploadCalls, stored, history, unitVars >>

DlFailQuiet ==
  /\ pc = "dl_check"
  /\ Falsy(DownloadResult(response))
  /\ pdf_content' = DownloadResult(response)
  /\ lastFetch' = FetchOutcome(response)
  /\ response' = NoResponse
  /\ NextLink
  /\ pc' = "loop"
  /\ UNCHANGED << file, processed_pdfs, stats, tally, max_pdfs, certificates, pdf_count, endKind, sinceFetch,
                  interruptedAt, saveCalled, aborted, capStop, extracted, loaded, fetched, uploadCalls, stored,
                  history, unitVars >>

\* download_pdf returned None: errors += 1; continue
DlFail ==
  /\ pc = "dl_check"
  /\ Falsy(DownloadResult(response))
  /\ pdf_content' = DownloadResult(response)
  /\ lastFetch' = FetchOutcome(response)
  /\ response' = NoResponse
  /\ stats' = [stats EXCEPT !.errors = @ + 1]
  /\ tally' = tally
  /\ NextLink
  /\ pc' = "loop"
  /\ UNCHANGED << file, processed_pdfs, max_pdfs, certificates, pdf_count, endKind, sinceFetch,
                  interruptedAt, saveCalled, aborted, capStop, extracted, loaded, fetched, uploadCalls, stored,
                  history, unitVars >>

DlOkUncounted ==
  /\ pc = "dl_check"
  /\ ~Falsy(DownloadResult(response))
  /\ pdf_content' = DownloadResult(response)
  /\ lastFetch' = FetchOutcome(response)
  /\ response' = NoResponse
  /\ stats' = stats
  /\ tally' = tally
  /\ pc' = "put"
  /\ UNCHANGED << file, processed_pdfs, max_pdfs, certificates, ci, li, pdf_count, endKind, sinceFetch,
                  interruptedAt, saveCalled, aborted, capStop, extracted, loaded, fetched, uploadCalls, stored,
                  history, unitVars >>

\* download_pdf returned the body: pdfs_downloaded += 1, key and metadata are built
DlOk ==
  /\ pc = "dl_check"
  /\ ~Falsy(DownloadResult(response))
  /\ pdf_content' = DownloadResult(response)
  /\ lastFetch' = FetchOutcome(response)
  /\ response' = NoResponse
  /\ stats' = [stats EXCEPT !.pdfs_downloaded = @ + 1]
  /\ tally' = tally
  /\ pc' = "put"
  /\ UNCHANGED << file, processed_pdfs, max_pdfs, certificates, ci, li, pdf_count, endKind, sinceFetch,
                  interruptedAt, saveCalled, aborted, capStop, extracted, loaded, fetched, uploadCalls, stored,
                  history, unitVars >>

(* ---------------------------- upload_to_s3 ---------------------------- *)
\* put_object succeeded: upload_to_s3 returns True
PutOk ==
  /\ pc = "put"
  /\ uploadCalls' = uploadCalls \cup {<<CurUrl, pdf_content>>}
  /\ stored' = stored \cup {CurUrl}
  /\ pc' = "upload_true"
  /\ UNCHANGED << file, processed_pdfs, stats, tally, max_pdfs, certificates, ci, li, pdf_count,
                  response, pdf_content, lastFetch, sinceFetch, endKind, interruptedAt, saveCalled, aborted, capStop, extracted, loaded,
                  fetched, history, unitVars >>

\* put_object raised botocore ClientError (an error response of the service):
\* caught, upload_to_s3 returns False
PutClientError ==
  /\ pc = "put"
  /\ uploadCalls' = uploadCalls \cup {<<CurUrl, pdf_content>>}
  /\ pc' = "upload_false"
  /\ UNCHANGED << file, processed_pdfs, stats, tally, max_pdfs, certificates, ci, li, pdf_count,
                  response, pdf_content, lastFetch, sinceFetch, endKind, interruptedAt, saveCalled, aborted, capStop, extracted, loaded,
                  fetched, stored, history, unitVars >>

\* put_object raised an exception that is no ClientError (botocore
\* EndpointConnectionError, ConnectTimeoutError, NoCredentialsError are
\* BotoCoreError): "except ClientError" does not catch it
PutOtherError ==
  /\ pc = "put"
  /\ uploadCalls' = uploadCalls \cup {<<CurUrl, pdf_content>>}
  /\ RaiseToMain
  /\ UNCHANGED << file, processed_pdfs, interruptedAt, saveCalled, aborted, capStop, extracted, loaded, fetched, stored, history, unitVars >>

RecordUploadAlways(S, h, ok) == S \cup {h}

\* self.processed_pdfs after the "if self.upload_to_s3(...)" statement
RecordUploadSet(S, h, ok) == IF ok THEN S \cup {h} ELSE S

\* upload_to_s3 returned True: pdfs_uploaded += 1, processed_pdfs.add(url_hash),
\* then pdf_count += 1 and time.sleep(1)
RecordUpload ==
  /\ pc = "upload_true"
  /\ stats' = [stats EXCEPT !.pdfs_uploaded = @ + 1]
  /\ tally' = tally
  /\ processed_pdfs' = RecordUploadSet(processed_pdfs, md5(CurUrl), TRUE)
  /\ pdf_count' = pdf_count + 1
  /\ NextLink
  /\ pc' = "loop"
  /\ sinceFetch' = "delayed"
  /\ UNCHANGED << file, max_pdfs, certificates, response, pdf_content, lastFetch, endKind,
                  interruptedAt, saveCalled, aborted, capStop, extracted, loaded, fetched, uploadCalls, stored,
                  history, unitVars >>

\* upload_to_s3 returned False: errors += 1, then pdf_count += 1 and time.sleep(1)
RecordFailureUncounts ==
  /\ pc = "upload_false"
  /\ stats' = [stats EXCEPT !.errors = @ + 1, !.pdfs_downloaded = @ - 1]
  /\ tally' = [tally EXCEPT !.failed_uploads = @ + 1]
  /\ processed_pdfs' = RecordUploadSet(processed_pdfs, md5(CurUrl), FALSE)
  /\ pdf_count' = pdf_count + 1
  /\ NextLink
  /\ pc' = "loop"
  /\ sinceFetch' = "delayed"
  /\ UNCHANGED << file, max_pdfs, certificates, response, pdf_content, lastFetch, endKind,
                  interruptedAt, saveCalled, aborted, capStop, extracted, loaded, fetched, uploadCalls, stored,
                  history, unitVars >>

\* upload_to_s3 returned False: errors += 1; pdf_count += 1; time.sleep(1)
RecordFailure ==
  /\ pc = "upload_false"
  /\ stats' = [stats EXCEPT !.errors = @ + 1]
  /\ tally' = [tally EXCEPT !.failed_uploads = @ + 1]
  /\ processed_pdfs' = RecordUploadSet(processed_pdfs, md5(CurUrl), FALSE)
  /\ pdf_count' = pdf_count + 1
  /\ NextLink
  /\ pc' = "loop"
  /\ sinceFetch' = "delayed"
  /\ UNCHANGED << file, max_pdfs, certificates, response, pdf_content, lastFetch, endKind,
                  interruptedAt, saveCalled, aborted, capStop, extracted, loaded, fetched, uploadCalls, stored,
                  history, unitVars >>

(* ---------------------------- save_progress --------------------------- *)
\* the texts json.dump(list(self.processed_pdfs), f) can write
DumpTexts(S) == JsonTexts(S)

SaveDumpNoWrite ==
  /\ pc = "save_dump"
  /\ pc' = "exit"
  /\ UNCHANGED << file, runVars, endKind, interruptedAt, saveCalled, history, unitVars >>

\* open(filename, 'w'): the file is created or truncated to nothing
SaveOpen ==
  /\ pc = "save_open"
  /\ file' = [exists |-> TRUE, text |-> <<>>]
  /\ pc' = "save_dump"
  /\ saveCalled' = TRUE
  /\ UNCHANGED << runVars, endKind, interruptedAt, history, unitVars >>

\* json.dump(list(self.processed_pdfs), f) and the close of the with block;
\* main() returns and the process exits
SaveDump ==
  /\ pc = "save_dump"
  /\ \E t \in DumpTexts(processed_pdfs) : file' = [exists |-> TRUE, text |-> t]
  /\ pc' = "exit"
  /\ UNCHANGED << runVars, endKind, interruptedAt, saveCalled, history, unitVars >>

(* ------------------------ signals and crashes ------------------------- *)
\* KeyboardInterrupt inside the try block of main(): "except KeyboardInterrupt"
\* logs it and calls save_progress()
Interrupt ==
  /\ pc \in TryPcs
  /\ endKind \in {"none", "normal"}
  /\ interruptedAt' = pc
  /\ endKind' = "interrupted"
  /\ pc' = "save_open"
  /\ FrameDropped
  /\ stats' = IF endKind = "normal" THEN stats ELSE ZeroStats
  /\ tally' = IF endKind = "normal" THEN tally ELSE ZeroTally
  /\ UNCHANGED << file, processed_pdfs, saveCalled, aborted, capStop, extracted, loaded, fetched, uploadCalls,
                  stored, history, unitVars >>

\* the process dies at once (SIGKILL, power loss): nothing of its memory is
\* left. While json.dump is writing, any part of the text may have reached the file
Kill ==
  /\ pc \notin {"idle", "exit"}
  /\ IF pc = "save_dump"
     THEN \E t \in DumpTexts(processed_pdfs) : \E q \in Prefixes(t) :
             file' = [exists |-> TRUE, text |-> q]
     ELSE file' = file
  /\ endKind' = "killed"
  /\ interruptedAt' = pc
  /\ pc' = "exit"
  /\ FrameDropped
  /\ stats' = ZeroStats
  /\ tally' = ZeroTally
  /\ processed_pdfs' = {}
  /\ aborted' = FALSE
  /\ capStop' = FALSE
  /\ extracted' = FALSE
  /\ loaded' = {}
  /\ fetched' = {}
  /\ uploadCalls' = {}
  /\ stored' = {}
  /\ UNCHANGED << saveCalled, history, unitVars >>

\* SIGTERM, SIGHUP: main() installs no handler, so no exception is raised
\* and no except clause runs; the process ends where it stands
Terminate ==
  /\ pc \in TryPcs
  /\ endKind' = "terminated"
  /\ interruptedAt' = pc
  /\ pc' = "exit"
  /\ FrameDropped
  /\ stats' = ZeroStats
  /\ tally' = ZeroTally
  /\ processed_pdfs' = {}
  /\ aborted' = FALSE
  /\ capStop' = FALSE
  /\ extracted' = FALSE
  /\ loaded' = {}
  /\ fetched' = {}
  /\ uploadCalls' = {}
  /\ stored' = {}
  /\ IF pc = "save_dump"
     THEN \E t \in DumpTexts(processed_pdfs) : \E q \in Prefixes(t) :
             file' = [exists |-> TRUE, text |-> q]
     ELSE file' = file
  /\ UNCHANGED << saveCalled, history, unitVars >>

Next ==
  \/ StartRun
  \/ LoadProgress
  \/ GetPageNone
  \/ GetPageRaises
  \/ GetPageAndExtract
  \/ LoopExhausted
  \/ CapReached
  \/ SkipProcessed
  \/ BeginLink
  \/ DlGet
  \/ DlFail
  \/ DlOk
  \/ PutOk
  \/ PutClientError
  \/ PutOtherError
  \/ RecordUpload
  \/ RecordFailure
  \/ SaveOpen
  \/ SaveDump
  \/ Interrupt
  \/ Kill
  \/ Terminate

Spec == Init /\ [][Next]_vars

(* ====================== properties of the pipeline ==================== *)
HashesOf(U) == { md5(u) : u \in U }

UploadedUrls == { c[1] : c \in uploadCalls }

\* URLs of the links the loops have already passed in this frame
VisitedUrls ==
  { certificates[i].pdf_links[j] :
      <<i, j>> \in { q \in (1..Len(certificates)) \X (1..MaxLinks + 1) :
                       /\ q[2] <= Len(certificates[q[1]].pdf_links)
                       /\ (q[1] < ci \/ (q[1] = ci /\ q[2] < li)) } }

\* download_pdf fails for the response: an exception of requests, an error
\* status, or a body without the %PDF signature
FetchFailed(r) == r.kind # "ok" \/ ~StartsWith(r.content, PDF_MAGIC)

\* the (ci, li) pair moved to the following link
AtNextLink ==
  \/ ci' = ci /\ li' = li + 1 /\ li < Len(certificates[ci].pdf_links)
  \/ ci' = ci + 1 /\ li' = 1 /\ li = Len(certificates[ci].pdf_links)

\* C1: dedup across runs. No URL uploaded successfully in the previous run,
\* when that run ended normally, is passed to download_pdf or upload_to_s3 in
\* this run, whatever listing this run sees.
C1_DedupAcrossRuns ==
  (fetched \cup UploadedUrls) \cap prevStored = {}

\* C1 witness: this run has met (and passed) a link uploaded by the previous
\* run and has fetched another one.
C1_Witness ==
  /\ pc = "loop"
  /\ VisitedUrls \cap prevStored # {}
  /\ fetched # {}

\* C2: crash-safety. A run that started from an empty identity set and was
\* interrupted during link iteration leaves, once its interruption path has
\* saved, a file holding exactly the identities of the URLs the object store
\* confirmed.
C2_CrashSafety ==
  (/\ pc = "exit"
   /\ endKind = "interrupted"
   /\ interruptedAt \in IterationPcs
   /\ loaded = {})
  => (/\ file.exists
      /\ JsonValid(file.text)
      /\ JsonSet(file.text) = HashesOf(stored))

\* C3: atomic save. A process killed at any point of save_progress leaves the
\* file, if there is one, readable as a complete saved set: never empty,
\* truncated or half-written.
C3_AtomicSave ==
  (/\ pc = "exit"
   /\ endKind = "killed"
   /\ interruptedAt \in {"save_open", "save_dump"}
   /\ file.exists)
  => JsonValid(file.text)

\* C4: upload failure is non-fatal. Whenever put_object fails, upload_to_s3
\* reports the failure to the loop, which adds one to errors, leaves
\* pdfs_uploaded and the identity set alone and goes on with the next link.
C4_UploadFailureNonFatal ==
  [][ /\ (/\ pc = "put"
          /\ pc' # "upload_true"
          /\ endKind' \notin {"interrupted", "killed"})
         => pc' = "upload_false"
      /\ (pc = "upload_false" /\ endKind' = "none")
         => (/\ stats'.errors = stats.errors + 1
             /\ stats'.pdfs_uploaded = stats.pdfs_uploaded
             /\ processed_pdfs' = processed_pdfs
             /\ pc' = "loop"
             /\ AtNextLink) ]_vars

\* C5: fetch failure is non-fatal. Whenever download_pdf fails for a link the
\* loop adds one to errors, leaves pdfs_downloaded, pdfs_uploaded and the
\* identity set alone, uploads nothing and goes on with the next link.
C5_FetchFailureNonFatal ==
  [][ (/\ pc = "dl_check"
       /\ FetchFailed(response)
       /\ endKind' = endKind)
      => (/\ stats'.errors = stats.errors + 1
          /\ stats'.pdfs_downloaded = stats.pdfs_downloaded
          /\ stats'.pdfs_uploaded = stats.pdfs_uploaded
          /\ stats'.pdfs_found = stats.pdfs_found
          /\ processed_pdfs' = processed_pdfs
          /\ uploadCalls' = uploadCalls
          /\ stored' = stored
          /\ pc' = "loop"
          /\ AtNextLink) ]_vars

\* C5 witness: a fetch has failed, nothing was downloaded or uploaded, one
\* error is counted and the loop stands at the next link.
C5_Witness ==
  /\ pc = "loop"
  /\ lastFetch \in {"http_error", "not_pdf"}
  /\ stats.errors = 1
  /\ stats.pdfs_downloaded = 0
  /\ uploadCalls = {}
  /\ ~Exhausted

C7_PdfValidation ==
  /\ [](/\ \A c \in uploadCalls : StartsWith(c[2], PDF_MAGIC)
        /\ pc = "put" => StartsWith(pdf_content, PDF_MAGIC))
  /\ [][ (/\ pc = "dl_check"
          /\ response.kind = "ok"
          /\ ~StartsWith(response.content, PDF_MAGIC)
          /\ endKind' = endKind)
         => (/\ pdf_content' = NoneBytes
             /\ pc' = "loop"
             /\ uploadCalls' = uploadCalls) ]_vars

\* C7 witness: a body without the signature has been rejected after an
\* earlier body was uploaded.
C7_Witness ==
  /\ pc = "loop"
  /\ lastFetch = "not_pdf"
  /\ uploadCalls # {}

\* C8: a link whose identity is already in the identity set adds one to
\* pdfs_found and changes nothing else: no other counter, not the identity
\* set, and neither download_pdf nor upload_to_s3 is called for it.
C8_SkipFrame ==
  [][ (/\ pc = "loop"
       /\ ~Exhausted
       /\ md5(CurUrl) \in processed_pdfs
       /\ endKind' = "none")
      => (/\ stats' = [stats EXCEPT !.pdfs_found = @ + 1]
          /\ processed_pdfs' = processed_pdfs
          /\ fetched' = fetched
          /\ uploadCalls' = uploadCalls
          /\ stored' = stored
          /\ pc' = "loop"
          /\ AtNextLink) ]_vars

\* C8 witness: the first link of the listing has been skipped.
C8_Witness ==
  /\ pc = "loop"
  /\ VisitedUrls # {}
  /\ stats.pdfs_found = 1
  /\ stats.pdfs_downloaded = 0
  /\ stats.errors = 0
  /\ fetched = {}

\* C9: when get_page_content returns no content the run returns all-zero
\* statistics, calls neither the extractor, download_pdf nor upload_to_s3,
\* and the identity set saved afterwards is the set that was loaded.
C9_RetrieverFailureAborts ==
  aborted =>
    /\ stats = ZeroStats
    /\ ~extracted
    /\ fetched = {}
    /\ uploadCalls = {}
    /\ processed_pdfs = loaded
    /\ pc = "exit" => (JsonValid(file.text) /\ JsonSet(file.text) = loaded)

\* C9 witness: an aborted run has exited after saving a non-empty loaded set.
C9_Witness ==
  /\ pc = "exit"
  /\ aborted
  /\ endKind = "normal"
  /\ loaded # {}

\* C10 as stated: an aborted run never writes the identity file; a file that
\* did not exist before the run does not exist after it.
C10_Original ==
  aborted => file.exists = existedAtStart

\* C10 amended: an aborted run still calls save_progress: once it has exited
\* the identity file exists, also when it did not exist before the run, and
\* holds as a set exactly what was loaded at start (the empty set for a
\* file that did not exist).
C10_AbortRewritesFile ==
  (pc = "exit" /\ aborted)
  => (/\ file.exists
      /\ JsonValid(file.text)
      /\ JsonSet(file.text) = (IF existedAtStart THEN loaded ELSE {}))

\* C10 witness: an aborted run that started without a file has exited and
\* left a file.
C10_Witness ==
  /\ pc = "exit"
  /\ aborted
  /\ ~existedAtStart
  /\ file.exists

(* ------------------------- shutdown and the cap ----------------------- *)
\* C11: every run of main() that has entered link iteration calls
\* save_progress before the process exits, also when an external signal
\* arrives (SIGKILL, which no program can handle, is left out)
C11_SaveBeforeExit ==
  (pc = "exit" /\ endKind # "killed" /\ (extracted \/ interruptedAt \in IterationPcs))
    => saveCalled

\* C12: when max_pdfs is set and reached, no further fetch or upload is started
C12_CapStopsIteration ==
  (pc \in IterationPcs \ {"loop"}) => ~(max_pdfs # NoneCap /\ pdf_count >= max_pdfs)

\* C13 as stated: in a run ended by the cap, pdfs_found counts the links
\* visited including the link at which the cap was detected
C13_Original ==
  [][(~capStop /\ capStop') => stats'.pdfs_found = LinksBefore(certificates, ci, li) + 1]_vars

\* C13: the cap is checked first and pdfs_found incremented second: in a run
\* ended by the cap, pdfs_found counts the links visited before the link at
\* which the cap was detected, and not that link
C13_CapCheckedFirst ==
  [][(~capStop /\ capStop') => stats'.pdfs_found = LinksBefore(certificates, ci, li)]_vars

C13_Witness ==
  capStop /\ pc = "save_open" /\ endKind = "normal" /\ stats.pdfs_found = MaxCap

(* ------------------------ throttle and counters ----------------------- *)
\* C14: between any two consecutive download_pdf calls of one run the
\* inter-document delay time.sleep(1) is applied, whatever became of the
\* earlier link
C14_DelayBetweenFetches ==
  pc = "dl_get" => sinceFetch # "no_delay"

\* every counter of b is at least the counter of a
StatsGeq(b, a) ==
  /\ b.certificates_found >= a.certificates_found
  /\ b.pdfs_found >= a.pdfs_found
  /\ b.pdfs_downloaded >= a.pdfs_downloaded
  /\ b.pdfs_uploaded >= a.pdfs_uploaded
  /\ b.errors >= a.errors

\* C15: within one run no step of process_certificates lowers a counter of
\* stats, up to and including "return stats", and the returned statistics
\* stay as they are until the process exits
C15_MonotonicCounters ==
  [][ /\ (pc \in {"get_page"} \cup IterationPcs /\ endKind' \in {"none", "normal"})
          => StatsGeq(stats', stats)
      /\ (endKind = "normal" /\ pc' # "load" /\ endKind' \notin {"killed", "terminated"})
          => stats' = stats ]_vars

C15_Witness ==
  /\ pc = "loop"
  /\ stats.certificates_found >= 1
  /\ stats.pdfs_found >= 2
  /\ stats.pdfs_downloaded >= 2
  /\ stats.pdfs_uploaded >= 1
  /\ stats.errors >= 1

(* ------------------------ the end-to-end scenario --------------------- *)
\* the fixture listing: a header row, row A of 3 cells (with or without a
\* .pdf link in them) and row B of 6 cells holding one .pdf link
ScenarioPages ==
  { [table |-> TRUE,
     rows |-> << HeaderRow,
                 [ncells |-> 3, links |-> a],
                 [ncells |-> 6, links |-> <<u>>] >>] :
      a \in { <<>> } \cup { <<v>> : v \in URLs }, u \in URLs }

\* process_certificates on the fixture: get_page_content returns the listing,
\* extract_certificate_data, certificates_found, pdf_count = 0
GetNoTablePageRaises ==
  /\ pc = "get_page"
  /\ html_content' = NoPage
  /\ extracted' = TRUE
  /\ RaiseToMain
  /\ UNCHANGED << file, processed_pdfs, interruptedAt, saveCalled, aborted, capStop, loaded,
                  fetched, uploadCalls, stored, history, link_text, extractOut, classifyOut,
                  call_args, call_out >>

\* process_certificates on a listing without a table: get_page_content returns
\* the HTML, extract_certificate_data warns "No certificate table found" and
\* returns [], certificates_found = 0, pdf_count = 0
GetNoTablePage ==
  /\ pc = "get_page"
  /\ html_content' = NoPage
  /\ certificates' = extract_certificate_data(NoPage)
  /\ stats' = [stats EXCEPT !.certificates_found = Len(extract_certificate_data(NoPage))]
  /\ tally' = tally
  /\ extracted' = TRUE
  /\ pdf_count' = 0
  /\ ci' = 1
  /\ li' = 1
  /\ pc' = "loop"
  /\ UNCHANGED << file, processed_pdfs, max_pdfs, response, pdf_content, lastFetch, sinceFetch,
                  endKind, interruptedAt, saveCalled, aborted, capStop, loaded, fetched,
                  uploadCalls, stored, history, link_text, extractOut, classifyOut,
                  call_args, call_out >>

GetScenarioPage ==
  /\ pc = "get_page"
  /\ \E page \in ScenarioPages :
       /\ html_content' = page
       /\ certificates' = extract_certificate_data(page)
       /\ stats' = [stats EXCEPT !.certificates_found = Len(extract_certificate_data(page))]
       /\ tally' = tally
  /\ extracted' = TRUE
  /\ pdf_count' = 0
  /\ ci' = 1
  /\ li' = 1
  /\ pc' = "loop"
  /\ UNCHANGED << file, processed_pdfs, max_pdfs, response, pdf_content, lastFetch, sinceFetch,
                  endKind, interruptedAt, saveCalled, aborted, capStop, loaded, fetched,
                  uploadCalls, stored, history, link_text, extractOut, classifyOut, call_args, call_out >>

\* runs of main() against the fixture listing, uninterrupted
NextScenario ==
  \/ StartRun
  \/ LoadProgress
  \/ GetScenarioPage
  \/ LoopExhausted
  \/ SkipProcessed
  \/ BeginLink
  \/ DlGet
  \/ DlFail
  \/ DlOk
  \/ PutOk
  \/ PutClientError
  \/ PutOtherError
  \/ RecordUpload
  \/ RecordFailure
  \/ SaveOpen
  \/ SaveDump

SpecScenario == Init /\ [][NextScenario]_vars

\* the URL of the one .pdf link of row B
ScenarioUrl == html_content.rows[3].links[1]

\* C16: on the fixture listing, a run that starts from an empty identity set
\* reports certificates_found = 1 and pdfs_found = 1; once the fetch has
\* returned %PDF bytes pdfs_downloaded = 1; when the upload has succeeded too
\* the run reports pdfs_uploaded = 1, errors = 0 and the identity set is
\* exactly the hash of the link's URL
C16_EndToEnd ==
  (extracted /\ loaded = {} /\ endKind \in {"none", "normal"}) =>
    /\ stats.certificates_found = 1
    /\ endKind = "normal" => stats.pdfs_found = 1
    /\ (lastFetch = "pdf" \/ uploadCalls # {}) => stats.pdfs_downloaded = 1
    /\ (endKind = "normal" /\ stored # {}) =>
         /\ stats.pdfs_uploaded = 1
         /\ stats.errors = 0
         /\ processed_pdfs = {md5(ScenarioUrl)}

C16_Witness ==
  /\ pc = "exit"
  /\ endKind = "normal"
  /\ loaded = {}
  /\ html_content.table
  /\ html_content.rows[2].links # <<>>
  /\ stored = {ScenarioUrl}
  /\ file.text = << LBracket, md5(ScenarioUrl), RBracket >>

(* ------------------ extract_certificate_data on its own --------------- *)
\* a scraper object in any state of its identity set, and any listing page
InitExtract ==
  /\ pc = "idle"
  /\ file = MissingFile
  /\ processed_pdfs \in SUBSET Hashes
  /\ stats = ZeroStats
  /\ max_pdfs = NoneCap
  /\ certificates = <<>>
  /\ ci = 1
  /\ li = 1
  /\ pdf_count = 0
  /\ response = NoResponse
  /\ pdf_content = NoneBytes
  /\ lastFetch = "none"
  /\ endKind = "none"
  /\ interruptedAt = "none"
  /\ aborted = FALSE
  /\ extracted = FALSE
  /\ loaded = {}
  /\ existedAtStart = FALSE
  /\ fetched = {}
  /\ uploadCalls = {}
  /\ stored = {}
  /\ prevStored = {}
  /\ sinceFetch = "none"
  /\ capStop = FALSE
  /\ saveCalled = FALSE
  /\ html_content \in Pages
  /\ link_text = <<>>
  /\ extractOut = <<>>
  /\ classifyOut = <<>>
  /\ tally = ZeroTally
  /\ call_args = <<>>
  /\ call_out = <<>>

\* the records whose links are not all in the identity set S
RECURSIVE NotYetProcessed(_, _)
NotYetProcessed(certs, S) ==
  IF certs = <<>> THEN <<>>
  ELSE IF \A i \in 1..Len(Head(certs).pdf_links) : md5(Head(certs).pdf_links[i]) \in S
       THEN NotYetProcessed(Tail(certs), S)
       ELSE <<Head(certs)>> \o NotYetProcessed(Tail(certs), S)

ExtractCallDedup ==
  /\ Len(extractOut) < MaxCalls
  /\ extractOut' = Append(extractOut,
                          NotYetProcessed(extract_certificate_data(html_content), processed_pdfs))
  /\ processed_pdfs' = processed_pdfs \cup
       UNION { { md5(html_content.rows[k].links[i]) : i \in 1..Len(html_content.rows[k].links) } :
               k \in 1..Len(html_content.rows) }
  /\ UNCHANGED << pc, file, stats, tally, max_pdfs, certificates, ci, li, pdf_count, response,
                  pdf_content, lastFetch, sinceFetch, aborted, capStop, extracted, loaded,
                  fetched, uploadCalls, stored, endKind, interruptedAt, saveCalled, history,
                  html_content, link_text, classifyOut, call_args, call_out >>

\* scraper.extract_certificate_data(html_content): the returned list is kept
ExtractCall ==
  /\ Len(extractOut) < MaxCalls
  /\ extractOut' = Append(extractOut, extract_certificate_data(html_content))
  /\ UNCHANGED << pc, file, runVars, endKind, interruptedAt, saveCalled, history,
                  html_content, link_text, classifyOut, call_args, call_out >>

NextExtract == ExtractCall

SpecExtract == InitExtract /\ [][NextExtract]_vars

\* the page without its body rows of fewer than 5 cells
DropShortRows(page) ==
  IF page.rows = <<>> THEN page
  ELSE [page EXCEPT !.rows =
          <<Head(page.rows)>> \o SelectSeq(Tail(page.rows), LAMBDA r : r.ncells >= MinCells)]

\* positions of the body rows with at least 5 cells
LongRows(page) == { i \in 2..Len(page.rows) : page.rows[i].ncells >= MinCells }

\* positions of the body rows with at least 5 cells and at least one .pdf link
ValidRows(page) == { i \in LongRows(page) : page.rows[i].links # <<>> }

\* C17: a row of fewer than 5 cells never yields a record, with or without
\* .pdf links in it, and the rows after it are processed as if it were absent
C17_RowValidityFilter ==
  \A k \in 1..Len(extractOut) :
    /\ Len(extractOut[k]) <= Cardinality(LongRows(html_content))
    /\ extractOut[k] = extract_certificate_data(DropShortRows(html_content))

C17_Witness ==
  /\ Len(extractOut) >= 1
  /\ Len(html_content.rows) = 3
  /\ html_content.rows[2].ncells < MinCells
  /\ html_content.rows[2].links # <<>>
  /\ html_content.rows[3].ncells >= MinCells
  /\ extractOut[1] = << [pdf_links |-> html_content.rows[3].links] >>

\* C18: every record returned has a non-empty pdf_links, and the records are,
\* in row order, exactly one for each body row with at least 5 cells and at
\* least one .pdf link
C18_RecordsOfValidRows ==
  \A k \in 1..Len(extractOut) :
    LET out == extractOut[k]
        rows == html_content.rows
    IN /\ \A j \in 1..Len(out) : out[j].pdf_links # <<>>
       /\ Len(out) = Cardinality(ValidRows(html_content))
       /\ \E f \in [1..Len(out) -> ValidRows(html_content)] :
            /\ \A i, j \in 1..Len(out) : i < j => f[i] < f[j]
            /\ \A j \in 1..Len(out) : out[j].pdf_links = rows[f[j]].links

C18_Witness ==
  /\ Len(extractOut) >= 1
  /\ Len(html_content.rows) = 3
  /\ \E i, j \in 2..3 :
       /\ i # j
       /\ html_content.rows[i].ncells >= MinCells
       /\ html_content.rows[i].links = <<>>
       /\ html_content.rows[j].ncells >= MinCells
       /\ html_content.rows[j].links # <<>>
  /\ Len(extractOut[1]) = 1

UpperCase == <<"A", "B", "C", "D", "E", "F", "G", "H", "I", "J", "K", "L", "M", "N", "O", "P", "Q", "R", "S", "T", "U", "V", "W", "X", "Y", "Z">>
LowerCase == <<"a", "b", "c", "d", "e", "f", "g", "h", "i", "j", "k", "l", "m", "n", "o", "p", "q", "r", "s", "t", "u", "v", "w", "x", "y", "z">>

\* str.lower() on one character of the texts below
LowerChar(c) ==
  IF \E i \in 1..Len(UpperCase) : UpperCase[i] = c
  THEN LowerCase[CHOOSE i \in 1..Len(UpperCase) : UpperCase[i] = c]
  ELSE c

\* link_text.lower()
Lower(text) == [i \in 1..Len(text) |-> LowerChar(text[i])]

\* "needle in text" of Python
Contains(text, needle) ==
  \E i \in 1..(Len(text) - Len(needle) + 1) : SubSeq(text, i, i + Len(needle) - 1) = needle

Audit == <<"a", "u", "d", "i", "t">>
Summary == <<"s", "u", "m", "m", "a", "r", "y">>
Certificate == <<"c", "e", "r", "t", "i", "f", "i", "c", "a", "t", "e">>

\* the fragments link texts are put together from
Fragments ==
  { <<"A", "u", "d", "i", "t">>,
    <<"S", "u", "m", "m", "a", "r", "y">>,
    <<" ", "C", "e", "r", "t", "i", "f", "i", "c", "a", "t", "e", " ">>,
    <<"C", "E", "R", "T", "I", "F", "I", "C", "A", "T", "E">>,
    <<"R", "e", "p", "o", "r", "t">>,
    <<"A", "u">>,
    <<"d", "I", "T">>,
    <<"s", "u", "m", "m", "a", "r">> }

RECURSIVE Concat(_)
Concat(ws) == IF ws = <<>> THEN <<>> ELSE Head(ws) \o Concat(Tail(ws))

\* link.get_text(strip=True) of the hyperlinks
LinkTexts == { Concat(ws) : ws \in UNION { [1..n -> Fragments] : n \in 0..MaxWords } }

classify_certificate_first(text) ==
  IF Contains(Lower(text), Certificate) THEN "certificate"
  ELSE IF Contains(Lower(text), Audit) \/ Contains(Lower(text), Summary) THEN "audit_report"
  ELSE "unknown"

\* classify_pdf_type(link_text)
classify_pdf_type(text) ==
  IF Contains(Lower(text), Audit) \/ Contains(Lower(text), Summary) THEN "audit_report"
  ELSE IF Contains(Lower(text), Certificate) THEN "certificate"
  ELSE "unknown"

\* a scraper object and any link text
InitClassify ==
  /\ pc = "idle"
  /\ file = MissingFile
  /\ processed_pdfs = {}
  /\ stats = ZeroStats
  /\ max_pdfs = NoneCap
  /\ certificates = <<>>
  /\ ci = 1
  /\ li = 1
  /\ pdf_count = 0
  /\ response = NoResponse
  /\ pdf_content = NoneBytes
  /\ lastFetch = "none"
  /\ endKind = "none"
  /\ interruptedAt = "none"
  /\ aborted = FALSE
  /\ extracted = FALSE
  /\ loaded = {}
  /\ existedAtStart = FALSE
  /\ fetched = {}
  /\ uploadCalls = {}
  /\ stored = {}
  /\ prevStored = {}
  /\ sinceFetch = "none"
  /\ capStop = FALSE
  /\ saveCalled = FALSE
  /\ html_content = NoPage
  /\ link_text \in LinkTexts
  /\ extractOut = <<>>
  /\ classifyOut = <<>>
  /\ tally = ZeroTally
  /\ call_args = <<>>
  /\ call_out = <<>>

\* scraper.classify_pdf_type(link_text): the returned value is kept
ClassifyCall ==
  /\ Len(classifyOut) < MaxCalls
  /\ classifyOut' = Append(classifyOut, classify_pdf_type(link_text))
  /\ UNCHANGED << pc, file, runVars, endKind, interruptedAt, saveCalled, history,
                  html_content, link_text, extractOut, call_args, call_out >>

NextClassify == ClassifyCall

SpecClassify == InitClassify /\ [][NextClassify]_vars

\* the upper case form of a lower case letter
UpperChar(c) ==
  IF \E i \in 1..Len(LowerCase) : LowerCase[i] = c
  THEN UpperCase[CHOOSE i \in 1..Len(LowerCase) : LowerCase[i] = c]
  ELSE c

\* the text holds the word at some position, each letter in either case
HasWord(text, word) ==
  \E i \in 1..(Len(text) - Len(word) + 1) :
    \A k \in 1..Len(word) : text[i + k - 1] \in {word[k], UpperChar(word[k])}

\* C19: classify_pdf_type returns audit_report whenever the link text holds
\* "audit" or "summary" in any letter case, also next to "certificate";
\* certificate when it holds "certificate" and neither of the two; unknown
\* otherwise
C19_Classification ==
  \A k \in 1..Len(classifyOut) :
    /\ (HasWord(link_text, Audit) \/ HasWord(link_text, Summary))
         => classifyOut[k] = "audit_report"
    /\ (HasWord(link_text, Certificate) /\ ~HasWord(link_text, Audit)
                                       /\ ~HasWord(link_text, Summary))
         => classifyOut[k] = "certificate"
    /\ (~HasWord(link_text, Certificate) /\ ~HasWord(link_text, Audit)
                                        /\ ~HasWord(link_text, Summary))
         => classifyOut[k] = "unknown"

C19_Witness ==
  /\ link_text = <<"A", "u", "d", "i", "t", " ", "C", "e", "r", "t", "i", "f", "i", "c", "a", "t", "e", " ", "S", "u", "m", "m", "a", "r", "y">>
  /\ classifyOut # <<>>
  /\ classifyOut[1] = "audit_report"

(* ------------------------ load_progress on its own -------------------- *)
\* what can be found at the path: nothing, a complete dump, a truncated dump
ProgressFiles ==
  {MissingFile} \cup
  { [exists |-> TRUE, text |-> q] :
      q \in UNION { Prefixes(t) : t \in UNION { JsonTexts(S) : S \in SUBSET Hashes } } }

\* a scraper object in any state of its identity set, about to call
\* load_progress on any path
InitLoad ==
  /\ pc = "load"
  /\ file \in ProgressFiles
  /\ processed_pdfs \in SUBSET Hashes
  /\ stats = ZeroStats
  /\ max_pdfs = NoneCap
  /\ certificates = <<>>
  /\ ci = 1
  /\ li = 1
  /\ pdf_count = 0
  /\ response = NoResponse
  /\ pdf_content = NoneBytes
  /\ lastFetch = "none"
  /\ endKind = "none"
  /\ interruptedAt = "none"
  /\ aborted = FALSE
  /\ extracted = FALSE
  /\ loaded = {}
  /\ existedAtStart = file.exists
  /\ fetched = {}
  /\ uploadCalls = {}
  /\ stored = {}
  /\ prevStored = {}
  /\ sinceFetch = "none"
  /\ capStop = FALSE
  /\ saveCalled = FALSE
  /\ html_content = NoPage
  /\ link_text = <<>>
  /\ extractOut = <<>>
  /\ classifyOut = <<>>
  /\ tally = ZeroTally
  /\ call_args = <<>>
  /\ call_out = <<>>

\* load_progress, then a run whose listing cannot be retrieved, then save_progress
NextLoad ==
  \/ LoadProgress
  \/ GetPageNone
  \/ SaveOpen
  \/ SaveDump

SpecLoad == InitLoad /\ [][NextLoad]_vars

\* C21 as stated: after load_progress on a path that does not exist the
\* identity set is empty, whatever it held before the call
C21_Original ==
  (pc = "get_page" /\ ~file.exists) => processed_pdfs = {}

\* C21: load_progress on a path that does not exist raises nothing, leaves
\* the identity set as it was before the call (empty on the freshly built
\* scraper of main()), and the run proceeds
C21_MissingFileKeepsSet ==
  [][ (pc = "load" /\ ~file.exists) =>
        /\ processed_pdfs' = processed_pdfs
        /\ pc' = "get_page"
        /\ endKind' = "none" ]_vars

C21_Witness ==
  /\ pc = "get_page"
  /\ ~file.exists
  /\ processed_pdfs # {}

(* ----------------------- a listing without a table -------------------- *)
\* uninterrupted runs of main() against the fixture listing or against a
\* listing that holds no table
NextFixtures ==
  \/ StartRun
  \/ LoadProgress
  \/ GetScenarioPage
  \/ GetNoTablePage
  \/ LoopExhausted
  \/ SkipProcessed
  \/ BeginLink
  \/ DlGet
  \/ DlFail
  \/ DlOk
  \/ PutOk
  \/ PutClientError
  \/ PutOtherError
  \/ RecordUpload
  \/ RecordFailure
  \/ SaveOpen
  \/ SaveDump

SpecFixtures == Init /\ [][NextFixtures]_vars

\* C22: when the listing was retrieved and holds no table, extraction returns
\* the empty list without raising, the run ends normally with
\* certificates_found = 0 and pdfs_found = 0, without any fetch or upload,
\* and the identity set is saved
C22_NoTableNonFatal ==
  (extracted /\ ~html_content.table) =>
    /\ endKind \in {"none", "normal"}
    /\ stats.certificates_found = 0
    /\ stats.pdfs_found = 0
    /\ fetched = {}
    /\ uploadCalls = {}
    /\ pc \notin IterationPcs \ {"loop"}
    /\ pc = "exit" =>
         /\ endKind = "normal"
         /\ saveCalled
         /\ file.exists
         /\ JsonValid(file.text)
         /\ JsonSet(file.text) = loaded

C22_Witness ==
  /\ pc = "exit"
  /\ extracted
  /\ ~html_content.table
  /\ loaded # {}
  /\ JsonSet(file.text) = loaded

(* ------------------------------- the cap ------------------------------ *)
\* C23 as stated: with max_pdfs = N >= 1 the number of download_pdf calls of
\* a run never exceeds N
C23_Original ==
  max_pdfs >= 1 => Cardinality(fetched) <= max_pdfs

\* C23: with max_pdfs = N >= 1 the number of documents downloaded, which is
\* the number of upload attempts, never exceeds N; skipped links and failed
\* fetches do not count towards the cap
C23_CapBoundsDownloads ==
  max_pdfs >= 1 =>
    /\ pdf_count <= max_pdfs
    /\ stats.pdfs_downloaded <= max_pdfs
    /\ stats.pdfs_uploaded + tally.failed_uploads <= max_pdfs
    /\ Cardinality({ c[1] : c \in uploadCalls }) <= max_pdfs

C23_Witness ==
  /\ max_pdfs = 1
  /\ pc = "loop"
  /\ Cardinality(fetched) = 2
  /\ stats.pdfs_downloaded = 1
  /\ stats.errors = 1

\* C24: with max_pdfs = 0 the cap is reached at the first link: the run
\* performs no fetch and no upload
C24_ZeroCapIsCap ==
  max_pdfs = 0 => (pc \in {"load", "get_page", "loop"} /\ fetched = {} /\ uploadCalls = {})

(* --------------------- the URL of a document link --------------------- *)
\* self.base_url
base_url == <<"h", "t", "t", "p", "s", ":", "/", "/", "w", "w", "w", ".", "i", "s", "c", "c", "-", "s", "y", "s", "t", "e", "m", ".", "o", "r", "g">>

Letters == { UpperCase[i] : i \in 1..Len(UpperCase) } \cup { LowerCase[i] : i \in 1..Len(LowerCase) }

\* str.endswith
EndsWith(text, suffix) ==
  /\ Len(text) >= Len(suffix)
  /\ SubSeq(text, Len(text) - Len(suffix) + 1, Len(text)) = suffix

\* position of the colon that ends the scheme of a URL, 0 when it has none
SchemeEnd(url) ==
  IF \E i \in 2..Len(url) : url[i] = ":" /\ \A k \in 1..(i - 1) : url[k] \in Letters
  THEN CHOOSE i \in 2..Len(url) : url[i] = ":" /\ \A k \in 1..(i - 1) : url[k] \in Letters
  ELSE 0

\* urlparse(url).scheme, in lower case
UrlScheme(url) == Lower(SubSeq(url, 1, SchemeEnd(url) - 1))

\* urllib.parse.urljoin(base, url) for a base without a path
urljoin(base, url) ==
  IF SchemeEnd(url) # 0 /\ UrlScheme(url) # UrlScheme(base) THEN url
  ELSE IF SchemeEnd(url) # 0
       THEN UrlScheme(url) \o SubSeq(url, SchemeEnd(url), Len(url))
  ELSE IF StartsWith(url, <<"/", "/">>) THEN UrlScheme(base) \o <<":">> \o url
  ELSE IF StartsWith(url, <<"/">>) THEN base \o url
  ELSE base \o <<"/">> \o url

\* the 'url' entries one hyperlink adds to pdf_links: none unless the target
\* ends in .pdf; "/..." and targets not starting with "http" go through urljoin
PdfLinkUrls(href) ==
  IF ~EndsWith(Lower(href), <<".", "p", "d", "f">>) THEN <<>>
  ELSE IF StartsWith(href, <<"/">>) THEN << urljoin(base_url, href) >>
  ELSE IF ~StartsWith(href, <<"h", "t", "t", "p">>) THEN << urljoin(base_url, href) >>
  ELSE << href >>

\* the hyperlink targets tried: how they begin, a file name, how they end
HrefHeads ==
  { <<"h", "t", "t", "p", "s", ":", "/", "/", "h", ".", "o", "r", "g", "/">>,
    <<"h", "t", "t", "p", ":", "/", "/", "h", ".", "o", "r", "g", "/">>,
    <<"/">>,
    <<"/", "/", "h", ".", "o", "r", "g", "/">>,
    <<>>,
    <<"d", "o", "c", "s", "/">>,
    <<"H", "T", "T", "P", "S", ":", "/", "/", "h", ".", "o", "r", "g", "/">>,
    <<"f", "t", "p", ":", "/", "/", "h", ".", "o", "r", "g", "/">> }
HrefNames == { <<"c", "e", "r", "t">>, <<"h", "t", "t", "p">> }
HrefEnds == { <<".", "p", "d", "f">>, <<".", "P", "D", "F">>, <<".", "h", "t", "m", "l">> }
Hrefs == { h \o n \o e : h \in HrefHeads, n \in HrefNames, e \in HrefEnds }

\* a scraper object and any hyperlink target
InitResolve ==
  /\ pc = "idle"
  /\ file = MissingFile
  /\ processed_pdfs = {}
  /\ stats = ZeroStats
  /\ max_pdfs = NoneCap
  /\ certificates = <<>>
  /\ ci = 1
  /\ li = 1
  /\ pdf_count = 0
  /\ response = NoResponse
  /\ pdf_content = NoneBytes
  /\ lastFetch = "none"
  /\ endKind = "none"
  /\ interruptedAt = "none"
  /\ aborted = FALSE
  /\ extracted = FALSE
  /\ loaded = {}
  /\ existedAtStart = FALSE
  /\ fetched = {}
  /\ uploadCalls = {}
  /\ stored = {}
  /\ prevStored = {}
  /\ sinceFetch = "none"
  /\ capStop = FALSE
  /\ saveCalled = FALSE
  /\ html_content = NoPage
  /\ link_text = <<>>
  /\ extractOut = <<>>
  /\ classifyOut = <<>>
  /\ tally = ZeroTally
  /\ call_args \in Hrefs
  /\ call_out = <<>>

\* extract_certificate_data meets a hyperlink with this target in a valid row
ResolveCall ==
  /\ Len(call_out) < MaxCalls
  /\ call_out' = Append(call_out, PdfLinkUrls(call_args))
  /\ UNCHANGED << pc, file, runVars, endKind, interruptedAt, saveCalled, history,
                  html_content, link_text, extractOut, classifyOut, call_args >>

NextResolve == ResolveCall

SpecResolve == InitResolve /\ [][NextResolve]_vars

\* a URL with a scheme followed by "//"
IsAbsolute(url) ==
  /\ SchemeEnd(url) # 0
  /\ StartsWith(SubSeq(url, SchemeEnd(url) + 1, Len(url)), <<"/", "/">>)

\* an absolute http or https URL
IsAbsoluteHttp(url) ==
  StartsWith(url, <<"h", "t", "t", "p", ":", "/", "/">>) \/ StartsWith(url, <<"h", "t", "t", "p", "s", ":", "/", "/">>)

\* C25: every url the extractor puts out for a target ending in .pdf is
\* absolute: a target that is not an absolute http(s) URL is resolved against
\* base_url, and an absolute one is kept unchanged
C25_UrlsAbsolute ==
  \A k \in 1..Len(call_out) :
    EndsWith(Lower(call_args), <<".", "p", "d", "f">>) =>
      /\ Len(call_out[k]) = 1
      /\ IsAbsolute(call_out[k][1])
      /\ IsAbsoluteHttp(call_args) => call_out[k][1] = call_args
      /\ ~IsAbsoluteHttp(call_args) => call_out[k][1] = urljoin(base_url, call_args)

(* --------------------------- generate_s3_key -------------------------- *)
\* cert_data['company_name'][:50]
CompanyLimit == 50

Digits == {"0", "1", "2", "3", "4", "5", "6", "7", "8", "9"}

\* re.sub(r'[^\w\-_.]', '_', text)
Sanitize(text) ==
  [i \in 1..Len(text) |->
     IF text[i] \in Letters \cup Digits \cup {"_", "-", "."} THEN text[i] ELSE "_"]

\* text[:n]
Truncate(text, n) == SubSeq(text, 1, IF Len(text) < n THEN Len(text) ELSE n)

\* generate_s3_key(cert_data, pdf_info) called on the day today:
\* iscc_certificates/{timestamp}/{cert_num}_{company}_{pdf_type}.pdf
generate_s3_key(cert_data, pdf_info, today) ==
  << "iscc_certificates", today,
     Sanitize(cert_data.certificate_number),
     Sanitize(Truncate(cert_data.company_name, CompanyLimit)),
     pdf_info.type >>

\* a company name of CompanyLimit characters
LongName == [i \in 1..CompanyLimit |-> "x"]

CertNumbers == { <<"A", "1">>, <<"A", "/", "1">>, <<"A", " ", "1">> }
CompanyNames == { <<"C", "o">>, LongName \o <<"a">>, LongName \o <<"b">> }
PdfTypes == {"audit_report", "certificate", "unknown"}
RunDays == {"20240101", "20240102"}

\* a link of a listing as upload_to_s3 gets to see it, and the day of its upload
KeyArgs ==
  [cert_data : [certificate_number : CertNumbers, company_name : CompanyNames],
   pdf_info : [url : URLs, type : PdfTypes],
   today : RunDays]

\* a scraper object and any two links of one listing
InitKeys ==
  /\ pc = "idle"
  /\ file = MissingFile
  /\ processed_pdfs = {}
  /\ stats = ZeroStats
  /\ max_pdfs = NoneCap
  /\ certificates = <<>>
  /\ ci = 1
  /\ li = 1
  /\ pdf_count = 0
  /\ response = NoResponse
  /\ pdf_content = NoneBytes
  /\ lastFetch = "none"
  /\ endKind = "none"
  /\ interruptedAt = "none"
  /\ aborted = FALSE
  /\ extracted = FALSE
  /\ loaded = {}
  /\ existedAtStart = FALSE
  /\ fetched = {}
  /\ uploadCalls = {}
  /\ stored = {}
  /\ prevStored = {}
  /\ sinceFetch = "none"
  /\ capStop = FALSE
  /\ saveCalled = FALSE
  /\ html_content = NoPage
  /\ link_text = <<>>
  /\ extractOut = <<>>
  /\ classifyOut = <<>>
  /\ tally = ZeroTally
  /\ call_args \in KeyArgs \X KeyArgs
  /\ call_out = <<>>

\* generate_s3_key for the first link and then for the second
KeyCall ==
  /\ Len(call_out) < MaxCalls
  /\ call_out' = Append(call_out,
        << generate_s3_key(call_args[1].cert_data, call_args[1].pdf_info, call_args[1].today),
           generate_s3_key(call_args[2].cert_data, call_args[2].pdf_info, call_args[2].today) >>)
  /\ UNCHANGED << pc, file, runVars, endKind, interruptedAt, saveCalled, history,
                  html_content, link_text, extractOut, classifyOut, call_args >>

NextKeys == KeyCall

SpecKeys == InitKeys /\ [][NextKeys]_vars

\* C26: for two links with distinct URLs uploaded on the same run date
\* generate_s3_key yields distinct keys
C26_DistinctKeys ==
  \A k \in 1..Len(call_out) :
    (call_args[1].pdf_info.url # call_args[2].pdf_info.url
       /\ call_args[1].today = call_args[2].today)
      => call_out[k][1] # call_out[k][2]

(* --------------------- accounting and dedup in a run ------------------ *)
\* C27: in every state pdfs_uploaded <= pdfs_downloaded <= pdfs_found; after
\* each fully processed link, and at the return, pdfs_found is the links
\* skipped as already processed plus errors plus pdfs_uploaded, and
\* pdfs_downloaded is pdfs_uploaded plus the failed uploads
C27_CounterAccounting ==
  /\ stats.pdfs_uploaded <= stats.pdfs_downloaded
  /\ stats.pdfs_downloaded <= stats.pdfs_found
  /\ (pc = "loop" \/ endKind = "normal") =>
       /\ stats.pdfs_found = tally.skipped + stats.errors + stats.pdfs_uploaded
       /\ stats.pdfs_downloaded = stats.pdfs_uploaded + tally.failed_uploads

C27_Witness ==
  /\ pc = "loop"
  /\ tally.skipped = 1
  /\ tally.failed_uploads = 1
  /\ stats.pdfs_found = 2
  /\ stats.pdfs_downloaded = 1

\* C28: a URL that occurs again in the listing is never uploaded with
\* success twice in one run: once uploaded it is not fetched again, and it
\* is skipped only when it was uploaded in this run or was in the loaded set,
\* so an occurrence after failed attempts only is fetched again
C28_InRunDedup ==
  [][ /\ (pc = "put" /\ pc' = "upload_true") => CurUrl \notin stored
      /\ (pc = "loop" /\ pc' = "dl_get") => CurUrl \notin stored
      /\ (pc = "loop" /\ pc' = "loop") => (CurUrl \in stored \/ md5(CurUrl) \in loaded) ]_vars

C28_Witness ==
  /\ pc = "loop"
  /\ loaded = {}
  /\ Len(certificates) = 1
  /\ Len(certificates[1].pdf_links) = 2
  /\ certificates[1].pdf_links[1] = certificates[1].pdf_links[2]
  /\ Exhausted
  /\ stats.pdfs_uploaded = 1
  /\ tally.skipped = 1


====
